---------------------------- MODULE Spec2Model ----------------------------
(***************************************************************************)
(* Model of the PsychOculusVRCore driver (PsychOculusVR.c): the table of   *)
(* device records, the lazily initialised vendor runtime and the           *)
(* subfunctions GetCount, Open, Close, Start, Stop, GetTrackingState and   *)
(* GetFovTextureSize.  The host is single threaded, so every subfunction   *)
(* call is one atomic step.  What the vendor SDK answers (whether the      *)
(* runtime starts, how many HMDs it detects, whether a device can be       *)
(* created, whether a tracking request is accepted) is chosen by the       *)
(* environment at each call.                                               *)
(***************************************************************************)
EXTENDS Integers, Sequences, FiniteSets, TLC

(* ------------------------------ constants ------------------------------ *)

\* #define MAX_PSYCH_OCULUS_DEVS 10
MAX_PSYCH_OCULUS_DEVS == 10

\* The size PSYCHOCULUSVRGetFovTextureSize stores after asking the SDK.
TEXSIZE_W == 1080
TEXSIZE_H == 1920

(* -------------------------------- bounds ------------------------------- *)

\* At most MaxFovCalls calls of GetFovTextureSize get as far as the SDK.
MaxFovCalls == 1

\* The second specification: at most MaxFewDevices devices are open at a
\* time, and at most MaxFewFovCalls calls of GetFovTextureSize get as far as
\* the SDK.
MaxFewDevices == 2

MaxFewFovCalls == 2

Handles == 1..MAX_PSYCH_OCULUS_DEVS

\* The handles passed to the subfunctions: the first and the last handle of
\* the table, the handles next to the table, and -1 (Close: no handle given).
HandleArgs == {-1, 0, 1, MAX_PSYCH_OCULUS_DEVS, MAX_PSYCH_OCULUS_DEVS + 1}

\* ovrHmd_Detect() answers: an error, no HMD, one HMD.
DetectResults == {-1, 0, 1}

DeviceIndexArgs == {-2, -1, 0, 1}

EyeArgs == (-1)..2

\* Number of elements of the optional 'fov' argument; 0 stands for omitted.
FovLenArgs == {0, 3, 4}

\* Values of the optional 'pixelsPerDisplay' argument: the largest value
\* that is refused, and the default.
PixelsPerDisplayArgs == {0, 1}

\* Sizes ovrHmd_GetFovTextureSize() may recommend.
SdkSizes == {<<1182, 1461>>, <<2364, 2922>>}

VARIABLES
    hmd,                \* oculusdevices[h-1].hmd # NULL, for h in 1..10
    isTracking,         \* oculusdevices[h-1].isTracking
    texSize,            \* oculusdevices[h-1].texSize
    eyeDistortionMesh,  \* oculusdevices[h-1].eyeDistortionMesh[e].pVertexData # NULL
    available_devices,
    devicecount,        \* unsigned int, held as the signed reading of its 32
                        \* bits: 0 - 1 is 0xFFFFFFFF, which reads -1
    initialized,
    ovrUp,              \* the vendor runtime is running (ovr_Initialize .. ovr_Shutdown)
    crashed,            \* the process died on a NULL dereference
    meshLive,           \* meshes the SDK has allocated and not yet released
    fovCalls,           \* calls of GetFovTextureSize that asked the SDK for a size
    op,                 \* the subfunction called last
    arg,                \* its handle (Open: its deviceIndex)
    args,               \* its further arguments (GetFovTextureSize:
                        \* <<eye, number of fov elements, pixelsPerDisplay>>)
    recommended,        \* the size ovrHmd_GetFovTextureSize() answered it
    ret,                \* the value it returned
    error,              \* <<kind, message>> of the PsychErrorExitMsg that ended it
    native,             \* the SDK calls it made, in order
    prev                \* the driver state when it was called

vars == <<hmd, isTracking, texSize, eyeDistortionMesh, available_devices,
          devicecount, initialized, ovrUp, crashed, meshLive,
          fovCalls, op, arg, args, recommended, ret, error, native, prev>>

(* ------------------------- the state as a record ----------------------- *)

NoError == <<"none", "">>

NoSize == <<0, 0>>

NoMesh == [e \in 0..1 |-> FALSE]

\* The driver state a call starts from.
Cur ==
    [hmd |-> hmd, isTracking |-> isTracking, texSize |-> texSize,
     eyeDistortionMesh |-> eyeDistortionMesh,
     available_devices |-> available_devices, devicecount |-> devicecount,
     initialized |-> initialized, ovrUp |-> ovrUp, crashed |-> crashed,
     meshLive |-> meshLive, fovCalls |-> fovCalls,
     recommended |-> NoSize, ret |-> 0, error |-> NoError, native |-> <<>>]

\* What the driver keeps between calls.
Registry(s) ==
    [hmd |-> s.hmd, isTracking |-> s.isTracking, texSize |-> s.texSize,
     eyeDistortionMesh |-> s.eyeDistortionMesh,
     available_devices |-> s.available_devices,
     devicecount |-> s.devicecount, initialized |-> s.initialized,
     ovrUp |-> s.ovrUp]

\* The errors the driver raises: <<kind, message>>.
ErrInvalidHandle == <<"PsychError_user", "Invalid Oculus handle.">>

ErrInitFailed ==
    <<"PsychError_system",
      "PsychOculusVRCore-ERROR: Initialization of VR runtime failed. Driver disabled!">>

ErrStopFailed ==
    <<"PsychError_system",
      "Stop of Oculus HMD tracking failed for reason given above.">>

ErrMaxDevices ==
    <<"PsychError_internal",
      "Maximum number of simultaneously open Oculus VR devices reached.">>

ErrDeviceIndex ==
    <<"PsychError_user",
      "Invalid 'deviceIndex' provided. Must be greater or equal to zero!">>

ErrNotEnoughHMDs ==
    <<"PsychError_user",
      "Invalid 'deviceIndex' provided. Not enough HMDs available!">>

ErrCreateFailed ==
    <<"PsychError_user",
      "Could not connect to Rift device with given 'deviceIndex'! [ovrHmd_Create() failed]">>

ErrAlreadyTracking ==
    <<"PsychError_user",
      "Tried to start tracking on HMD, but tracking already active.">>

ErrStartFailed ==
    <<"PsychError_system",
      "Start of Oculus HMD tracking failed for reason given above.">>

ErrEye ==
    <<"PsychError_user",
      "Invalid 'eye' specified. Must be 0 or 1 for left- or right eye.">>

ErrFov ==
    <<"PsychError_user",
      "Invalid 'fov' specified. Must be a 4-component vector of form [leftdeg, rightdeg, updeg, downdeg].">>

ErrPixelsPerDisplay ==
    <<"PsychError_user",
      "Invalid 'pixelsPerDisplay' specified. Must be greater than zero.">>

ErrMeshFailed ==
    <<"PsychError_system", "Failed to compute distortion mesh for eye.">>

\* PsychErrorExitMsg() does not return: the call ends where it is raised.
PsychErrorExitMsg(s, err) == [s EXCEPT !.error = err]

Aborted(s) == s.error # NoError \/ s.crashed

\* A call into the SDK: <<function, handle or 0, 1 if it succeeded else 0>>.
Sdk(s, fn, h, ok) == [s EXCEPT !.native = Append(@, <<fn, h, ok>>)]


(* ------------------------------- helpers ------------------------------- *)

\* Mutant of ValidHandle: the slot is not tested for a device.
ValidHandle_RangeOnly(s, handle) ==
    ~(handle < 1 \/ handle > MAX_PSYCH_OCULUS_DEVS)

\* The test of PsychGetOculus(): the handle names a slot that holds a device.
ValidHandle(s, handle) ==
    ~(handle < 1 \/ handle > MAX_PSYCH_OCULUS_DEVS \/ ~s.hmd[handle])

\* PsychGetOculus(handle, dontfail): an invalid handle is a user error
\* unless dontfail is set; the caller then sees NULL (~ValidHandle).
PsychGetOculus(s, handle, dontfail) ==
    IF ValidHandle(s, handle) \/ dontfail
    THEN s
    ELSE PsychErrorExitMsg(s, ErrInvalidHandle)

\* Mutant of Detect: a negative answer is stored as it is.
Detect_NoClamp(s, detected) ==
    [Sdk(s, "ovrHmd_Detect", 0, 1) EXCEPT !.available_devices = detected]

\* available_devices = ovrHmd_Detect(); if (available_devices < 0) ... = 0;
Detect(s, detected) ==
    [Sdk(s, "ovrHmd_Detect", 0, 1) EXCEPT
        !.available_devices = IF detected < 0 THEN 0 ELSE detected]

\* Mutant of PsychOculusVRCheckInit: the runtime is started on every call.
PsychOculusVRCheckInit_NoGuard(s, initOk, detected) ==
    IF initOk
    THEN [Detect([Sdk(s, "ovr_Initialize", 0, 1) EXCEPT !.ovrUp = TRUE],
                 detected)
            EXCEPT !.initialized = TRUE]
    ELSE PsychErrorExitMsg(Sdk(s, "ovr_Initialize", 0, 0), ErrInitFailed)

\* PsychOculusVRCheckInit(): start the vendor runtime on first use.
PsychOculusVRCheckInit(s, initOk, detected) ==
    IF s.initialized THEN s
    ELSE IF initOk
    THEN [Detect([Sdk(s, "ovr_Initialize", 0, 1) EXCEPT !.ovrUp = TRUE],
                 detected)
            EXCEPT !.initialized = TRUE]
    ELSE PsychErrorExitMsg(Sdk(s, "ovr_Initialize", 0, 0), ErrInitFailed)

\* Mutant of PsychOculusStop: the flag is cleared though the SDK refused.
PsychOculusStop_FlagFirst(s, handle, stopOk) ==
    IF ~ValidHandle(PsychGetOculus(s, handle, TRUE), handle)
       \/ ~s.isTracking[handle]
    THEN s
    ELSE IF ~stopOk
    THEN PsychErrorExitMsg([Sdk(s, "ovrHmd_ConfigureTracking", handle, 0)
                               EXCEPT !.isTracking[handle] = FALSE],
                           ErrStopFailed)
    ELSE [Sdk(s, "ovrHmd_ConfigureTracking", handle, 1)
            EXCEPT !.isTracking[handle] = FALSE]

\* PsychOculusStop(handle): stop tracking if the device is open and tracking.
PsychOculusStop(s, handle, stopOk) ==
    IF ~ValidHandle(PsychGetOculus(s, handle, TRUE), handle)
       \/ ~s.isTracking[handle]
    THEN s
    ELSE IF ~stopOk
    THEN PsychErrorExitMsg(Sdk(s, "ovrHmd_ConfigureTracking", handle, 0),
                           ErrStopFailed)
    ELSE [Sdk(s, "ovrHmd_ConfigureTracking", handle, 1)
            EXCEPT !.isTracking[handle] = FALSE]

\* if (mesh[e].pVertexData) ovrHmd_DestroyDistortionMesh(&mesh[e]);
\* the SDK frees the buffers and clears the pointers.
DestroyMesh(s, handle, e) ==
    IF s.eyeDistortionMesh[handle][e]
    THEN [Sdk(s, "ovrHmd_DestroyDistortionMesh", handle, 1) EXCEPT
            !.eyeDistortionMesh[handle][e] = FALSE,
            !.meshLive = @ - 1]
    ELSE s

\* Mutant of PsychOculusClose: the device count is not taken down.
PsychOculusClose_NoCountDown(s, handle, stopOk) ==
    IF ~ValidHandle(PsychGetOculus(s, handle, TRUE), handle) THEN s
    ELSE LET s1 == PsychOculusStop(s, handle, stopOk) IN
         IF Aborted(s1) THEN s1
         ELSE LET s2 == DestroyMesh(DestroyMesh(s1, handle, 0), handle, 1) IN
              [Sdk(s2, "ovrHmd_Destroy", handle, 1) EXCEPT
                  !.hmd[handle] = FALSE]

\* Mutant of PsychOculusClose: the slot keeps the released device.
PsychOculusClose_KeepsHandle(s, handle, stopOk) ==
    IF ~ValidHandle(PsychGetOculus(s, handle, TRUE), handle) THEN s
    ELSE LET s1 == PsychOculusStop(s, handle, stopOk) IN
         IF Aborted(s1) THEN s1
         ELSE LET s2 == DestroyMesh(DestroyMesh(s1, handle, 0), handle, 1) IN
              [Sdk(s2, "ovrHmd_Destroy", handle, 1) EXCEPT
                  !.devicecount = @ - 1]

\* PsychOculusClose(handle): stop, release the meshes and the device.
PsychOculusClose(s, handle, stopOk) ==
    IF ~ValidHandle(PsychGetOculus(s, handle, TRUE), handle) THEN s
    ELSE LET s1 == PsychOculusStop(s, handle, stopOk) IN
         IF Aborted(s1) THEN s1
         ELSE LET s2 == DestroyMesh(DestroyMesh(s1, handle, 0), handle, 1) IN
              [Sdk(s2, "ovrHmd_Destroy", handle, 1) EXCEPT
                  !.hmd[handle] = FALSE,
                  !.devicecount = @ - 1]

\* for (handle = 0; handle < MAX_PSYCH_OCULUS_DEVS; handle++)
\*     PsychOculusClose(handle);
\* The SDK rejects the stop request of the device 'rejected' (0: of none).
RECURSIVE ShutDownLoop(_, _, _)
ShutDownLoop(s, handle, rejected) ==
    IF ~(handle < MAX_PSYCH_OCULUS_DEVS) THEN s
    ELSE LET s1 == PsychOculusClose(s, handle, handle # rejected) IN
         IF Aborted(s1) THEN s1
         ELSE ShutDownLoop(s1, handle + 1, rejected)

\* PsychOculusVRShutDown(): close the devices, shut the runtime down.
PsychOculusVRShutDown(s, rejected) ==
    IF s.initialized
    THEN LET s1 == ShutDownLoop(s, 0, rejected) IN
         IF Aborted(s1) THEN s1
         ELSE [Sdk(s1, "ovr_Shutdown", 0, 1) EXCEPT
                  !.ovrUp = FALSE, !.initialized = FALSE]
    ELSE [s EXCEPT !.initialized = FALSE]

\* for (handle = 0; (handle < MAX) && oculusdevices[handle].hmd; handle++);
\* as a 1-based handle; MAX_PSYCH_OCULUS_DEVS + 1 when no slot is free.
RECURSIVE FreeSlotFrom(_, _)
FreeSlotFrom(s, handle) ==
    IF handle <= MAX_PSYCH_OCULUS_DEVS /\ s.hmd[handle]
    THEN FreeSlotFrom(s, handle + 1)
    ELSE handle

\* Mutant of FreeSlot: the search starts at the second slot.
FreeSlot_SkipsFirst(s) == FreeSlotFrom(s, 2)

FreeSlot(s) == FreeSlotFrom(s, 1)

\* memset(&oculusdevices[handle], 0, sizeof(PsychOculusDevice));
ZeroSlot(s, handle) ==
    [s EXCEPT !.hmd[handle] = FALSE, !.isTracking[handle] = FALSE,
              !.texSize[handle] = NoSize,
              !.eyeDistortionMesh[handle] = NoMesh]

(* ----------------------------- subfunctions ---------------------------- *)

\* numHMDs = PsychOculusVRCore('GetCount')
PSYCHOCULUSVRGetCount(s, initOk, detInit, detected) ==
    LET s1 == PsychOculusVRCheckInit(s, initOk, detInit) IN
    IF Aborted(s1) THEN s1
    ELSE LET s2 == Detect(s1, detected) IN
         [s2 EXCEPT !.ret = s2.available_devices]

\* The device of the slot is created: line 297 (real) or 311 (emulated).
\* A failed ovrHmd_Create() is a user error.  The result of
\* ovrHmd_CreateDebug() is not tested: the printf()s of line 317 read
\* through it (verbosity is 3), and a NULL ends the process there.
CreateDevice(s, handle, deviceIndex, createOk) ==
    IF deviceIndex >= 0
    THEN IF createOk
         THEN [Sdk(s, "ovrHmd_Create", handle, 1) EXCEPT !.hmd[handle] = TRUE]
         ELSE PsychErrorExitMsg(Sdk(s, "ovrHmd_Create", handle, 0),
                                ErrCreateFailed)
    ELSE IF createOk
         THEN [Sdk(s, "ovrHmd_CreateDebug", handle, 1) EXCEPT
                  !.hmd[handle] = TRUE]
         ELSE [Sdk(s, "ovrHmd_CreateDebug", handle, 0) EXCEPT
                  !.crashed = TRUE]

\* oculusPtr = PsychOculusVRCore('Open' [, deviceIndex=0])
PSYCHOCULUSVROpen(s, deviceIndex, initOk, detInit, detected, createOk) ==
    LET s1 == PsychOculusVRCheckInit(s, initOk, detInit)
        handle == FreeSlot(s1)
    IN
    IF Aborted(s1) THEN s1
    ELSE IF handle > MAX_PSYCH_OCULUS_DEVS
    THEN PsychErrorExitMsg(s1, ErrMaxDevices)
    ELSE IF deviceIndex < -1
    THEN PsychErrorExitMsg(s1, ErrDeviceIndex)
    ELSE LET s2 == Detect(s1, detected) IN
    IF (deviceIndex >= 0) /\ (deviceIndex >= s2.available_devices)
    THEN PsychErrorExitMsg(s2, ErrNotEnoughHMDs)
    ELSE LET s3 == CreateDevice(ZeroSlot(s2, handle), handle, deviceIndex,
                                createOk) IN
    IF Aborted(s3) THEN s3
    ELSE [s3 EXCEPT !.devicecount = @ + 1,
                    !.ret = handle]

\* PsychOculusVRCore('Close' [, oculusPtr]); an omitted handle is -1.
\* 'rejected' is the device whose stop request the SDK rejects (0: none).
PSYCHOCULUSVRClose(s, handle, initOk, detInit, rejected) ==
    LET s1 == PsychOculusVRCheckInit(s, initOk, detInit) IN
    IF Aborted(s1) THEN s1
    ELSE IF handle >= 1
    THEN PsychOculusClose(s1, handle, handle # rejected)
    ELSE PsychOculusVRShutDown(s1, rejected)

\* Mutant of PSYCHOCULUSVRStart: the flag is set before the SDK is asked.
PSYCHOCULUSVRStart_FlagFirst(s, handle, initOk, detInit, startOk) ==
    LET s1 == PsychOculusVRCheckInit(s, initOk, detInit) IN
    IF Aborted(s1) THEN s1
    ELSE LET s2 == PsychGetOculus(s1, handle, FALSE) IN
    IF Aborted(s2) THEN s2
    ELSE IF s2.isTracking[handle]
    THEN PsychErrorExitMsg(s2, ErrAlreadyTracking)
    ELSE LET s3 == [s2 EXCEPT !.isTracking[handle] = TRUE] IN
    IF ~startOk
    THEN PsychErrorExitMsg(Sdk(s3, "ovrHmd_ConfigureTracking", handle, 0),
                           ErrStartFailed)
    ELSE Sdk(s3, "ovrHmd_ConfigureTracking", handle, 1)

\* PsychOculusVRCore('Start', oculusPtr)
PSYCHOCULUSVRStart(s, handle, initOk, detInit, startOk) ==
    LET s1 == PsychOculusVRCheckInit(s, initOk, detInit) IN
    IF Aborted(s1) THEN s1
    ELSE LET s2 == PsychGetOculus(s1, handle, FALSE) IN
    IF Aborted(s2) THEN s2
    ELSE IF s2.isTracking[handle]
    THEN PsychErrorExitMsg(s2, ErrAlreadyTracking)
    ELSE IF ~startOk
    THEN PsychErrorExitMsg(Sdk(s2, "ovrHmd_ConfigureTracking", handle, 0),
                           ErrStartFailed)
    ELSE [Sdk(s2, "ovrHmd_ConfigureTracking", handle, 1) EXCEPT
            !.isTracking[handle] = TRUE]

\* PsychOculusVRCore('Stop', oculusPtr)
PSYCHOCULUSVRStop(s, handle, initOk, detInit, stopOk) ==
    LET s1 == PsychOculusVRCheckInit(s, initOk, detInit) IN
    IF Aborted(s1) THEN s1
    ELSE PsychOculusStop(s1, handle, stopOk)

\* state = PsychOculusVRCore('GetTrackingState', oculusPtr [, predictionTime])
\* returns a row vector of 20 values.
PSYCHOCULUSVRGetTrackingState(s, handle, initOk, detInit) ==
    LET s1 == PsychOculusVRCheckInit(s, initOk, detInit) IN
    IF Aborted(s1) THEN s1
    ELSE LET s2 == PsychGetOculus(s1, handle, FALSE) IN
    IF Aborted(s2) THEN s2
    ELSE [Sdk(s2, "ovrHmd_GetTrackingState", handle, 1) EXCEPT !.ret = 20]

\* [width, height, ...] = PsychOculusVRCore('GetFovTextureSize', oculusPtr,
\* eye [, fov][, pixelsPerDisplay]); ret is <<width, height>>.
PSYCHOCULUSVRGetFovTextureSize(s, handle, eyeIndex, fovLen, pixelsPerDisplay, initOk, detInit, sdkSize, meshOk) ==
    LET s1 == PsychOculusVRCheckInit(s, initOk, detInit) IN
    IF Aborted(s1) THEN s1
    ELSE LET s2 == PsychGetOculus(s1, handle, FALSE) IN
    IF Aborted(s2) THEN s2
    ELSE IF eyeIndex < 0 \/ eyeIndex > 1
    THEN PsychErrorExitMsg(s2, ErrEye)
    ELSE IF fovLen # 0 /\ fovLen # 4
    THEN PsychErrorExitMsg(s2, ErrFov)
    ELSE IF pixelsPerDisplay <= 0
    THEN PsychErrorExitMsg(s2, ErrPixelsPerDisplay)
    ELSE LET s3 == [Sdk(s2, "ovrHmd_GetFovTextureSize", handle, 1) EXCEPT
                       !.texSize[handle] = sdkSize, !.recommended = sdkSize,
                       !.fovCalls = @ + 1]
             s4 == [s3 EXCEPT !.texSize[handle] = <<TEXSIZE_W, TEXSIZE_H>>]
             s5 == [Sdk(s4, "ovrHmd_GetRenderDesc", handle, 1) EXCEPT
                       !.ret = s4.texSize[handle]]
    IN
    IF ~meshOk
    THEN PsychErrorExitMsg(Sdk(s5, "ovrHmd_CreateDistortionMesh", handle, 0),
                           ErrMeshFailed)
    ELSE [Sdk(s5, "ovrHmd_CreateDistortionMesh", handle, 1) EXCEPT
            !.eyeDistortionMesh[handle][eyeIndex] = TRUE,
            !.meshLive = @ + 1]

(* ------------------------------- the steps ----------------------------- *)

\* PsychOculusVRInit() and the static initialisers: an empty table.
Init ==
    /\ hmd = [h \in Handles |-> FALSE]
    /\ isTracking = [h \in Handles |-> FALSE]
    /\ texSize = [h \in Handles |-> NoSize]
    /\ eyeDistortionMesh = [h \in Handles |-> NoMesh]
    /\ available_devices = 0
    /\ devicecount = 0
    /\ initialized = FALSE
    /\ ovrUp = FALSE
    /\ crashed = FALSE
    /\ meshLive = 0
    /\ fovCalls = 0
    /\ op = "PsychOculusVRInit"
    /\ arg = 0
    /\ args = <<>>
    /\ recommended = NoSize
    /\ ret = 0
    /\ error = NoError
    /\ native = <<>>
    /\ prev = Registry(Cur)

\* The call 'name' with argument 'a' and further arguments 'more' ran from
\* the current state to s.
Call(name, a, more, s) ==
    /\ hmd' = s.hmd
    /\ isTracking' = s.isTracking
    /\ texSize' = s.texSize
    /\ eyeDistortionMesh' = s.eyeDistortionMesh
    /\ available_devices' = s.available_devices
    /\ devicecount' = s.devicecount
    /\ initialized' = s.initialized
    /\ ovrUp' = s.ovrUp
    /\ crashed' = s.crashed
    /\ meshLive' = s.meshLive
    /\ fovCalls' = s.fovCalls
    /\ op' = name
    /\ arg' = a
    /\ args' = more
    /\ recommended' = s.recommended
    /\ ret' = IF Aborted(s) THEN 0 ELSE s.ret
    /\ error' = s.error
    /\ native' = s.native
    /\ prev' = Registry(Cur)

\* The call 'name' with the one argument 'a' ran from the current state to s.
Return(name, a, s) == Call(name, a, <<>>, s)

\* What the SDK answers is chosen where the code asks for it: the runtime
\* is started, and the devices counted, by an uninitialized driver only.
InitOks == IF initialized THEN {TRUE} ELSE BOOLEAN

DetInits == IF initialized THEN {0} ELSE DetectResults

\* The devices whose stop request the SDK may reject, and 0 for none.
Rejectable == {0} \cup {h \in Handles : isTracking[h]}

\* Close is also called with the handle the Open before it returned.
CloseArgs ==
    HandleArgs \cup (IF op = "Open" /\ error = NoError THEN {ret} ELSE {})

\* An argument the call does not get to read is left at its default d.
ReadIf(read, S, d) == IF read THEN S ELSE {d}

GetCount ==
    /\ ~crashed
    /\ \E initOk \in InitOks, detInit \in DetInits :
       \E detected \in ReadIf(initOk, DetectResults, 0) :
          Return("GetCount", 0,
                 PSYCHOCULUSVRGetCount(Cur, initOk, detInit, detected))

Open ==
    /\ ~crashed
    /\ \E deviceIndex \in DeviceIndexArgs, initOk \in InitOks,
          detInit \in DetInits :
       \E detected \in ReadIf(/\ initOk
                              /\ FreeSlot(Cur) <= MAX_PSYCH_OCULUS_DEVS
                              /\ deviceIndex >= -1, DetectResults, 0) :
       \E createOk \in ReadIf(deviceIndex < 0 \/ deviceIndex < detected,
                              BOOLEAN, TRUE) :
          Return("Open", deviceIndex,
                 PSYCHOCULUSVROpen(Cur, deviceIndex, initOk, detInit,
                                   detected, createOk))

Close ==
    /\ ~crashed
    /\ \E handle \in CloseArgs, initOk \in InitOks, detInit \in DetInits :
       \E rejected \in ReadIf(initOk,
                              IF handle >= 1 THEN Rejectable \cap {0, handle}
                                             ELSE Rejectable, 0) :
          Return("Close", handle,
                 PSYCHOCULUSVRClose(Cur, handle, initOk, detInit, rejected))

Start ==
    /\ ~crashed
    /\ \E handle \in HandleArgs, initOk \in InitOks, detInit \in DetInits :
       \E startOk \in ReadIf(/\ initOk
                             /\ ValidHandle(Cur, handle)
                             /\ ~isTracking[handle], BOOLEAN, TRUE) :
          Return("Start", handle,
                 PSYCHOCULUSVRStart(Cur, handle, initOk, detInit, startOk))

Stop ==
    /\ ~crashed
    /\ \E handle \in HandleArgs, initOk \in InitOks, detInit \in DetInits :
       \E stopOk \in ReadIf(/\ initOk
                            /\ ValidHandle(Cur, handle)
                            /\ isTracking[handle], BOOLEAN, TRUE) :
          Return("Stop", handle,
                 PSYCHOCULUSVRStop(Cur, handle, initOk, detInit, stopOk))

GetTrackingState ==
    /\ ~crashed
    /\ \E handle \in HandleArgs, initOk \in InitOks, detInit \in DetInits :
          Return("GetTrackingState", handle,
                 PSYCHOCULUSVRGetTrackingState(Cur, handle, initOk, detInit))

\* A call of GetFovTextureSize, with every argument and SDK answer.
FovCall ==
    \E handle \in HandleArgs, initOk \in InitOks, detInit \in DetInits :
    \E eyeIndex \in ReadIf(ValidHandle(Cur, handle), EyeArgs, 0) :
    \E fovLen \in ReadIf(ValidHandle(Cur, handle), FovLenArgs, 0) :
    \E pixelsPerDisplay \in
          ReadIf(ValidHandle(Cur, handle), PixelsPerDisplayArgs, 1) :
    \E sdkSize \in ReadIf(/\ initOk /\ ValidHandle(Cur, handle)
                           /\ eyeIndex \in 0..1 /\ fovLen \in {0, 4}
                           /\ pixelsPerDisplay > 0, SdkSizes, NoSize) :
    \E meshOk \in ReadIf(sdkSize # NoSize, BOOLEAN, TRUE) :
       Call("GetFovTextureSize", handle,
            <<eyeIndex, fovLen, pixelsPerDisplay>>,
            PSYCHOCULUSVRGetFovTextureSize(Cur, handle, eyeIndex, fovLen,
                  pixelsPerDisplay, initOk, detInit, sdkSize, meshOk))

GetFovTextureSize ==
    /\ ~crashed
    /\ fovCalls < MaxFovCalls
    /\ FovCall

Next ==
    \/ GetCount
    \/ Open
    \/ Close
    \/ Start
    \/ Stop
    \/ GetTrackingState
    \/ GetFovTextureSize

Spec == Init /\ [][Next]_vars

(* ----- a second specification: few devices, each of which is used ----- *)

\* Open while fewer than MaxFewDevices devices are open.
OpenFew ==
    /\ devicecount < MaxFewDevices
    /\ Open

\* Start on the handle the Open before it returned.
StartOpened ==
    /\ ~crashed
    /\ op = "Open" /\ error = NoError
    /\ \E startOk \in BOOLEAN :
          Return("Start", ret,
                 PSYCHOCULUSVRStart(Cur, ret, TRUE, 0, startOk))

\* GetFovTextureSize, up to MaxFewFovCalls calls of which get as far as the
\* SDK.
GetFovTextureSizeAgain ==
    /\ ~crashed
    /\ fovCalls < MaxFewFovCalls
    /\ FovCall

NextFew ==
    \/ GetCount
    \/ OpenFew
    \/ Close
    \/ Start
    \/ StartOpened
    \/ Stop
    \/ GetTrackingState
    \/ GetFovTextureSizeAgain

SpecFew == Init /\ [][NextFew]_vars

(* -------------------------------- claims ------------------------------- *)

\* The handle named a slot that held a device when the last call was made.
WasOpen(h) == h \in Handles /\ prev.hmd[h]

OpenHandles(f) == {h \in Handles : f[h]}

\* The slots, the tracking flags and the device count are as before the call.
TableUnchanged ==
    /\ hmd = prev.hmd
    /\ isTracking = prev.isTracking
    /\ devicecount = prev.devicecount

\* The last call asked the SDK to start or stop tracking on some device.
TrackingRequested ==
    \E i \in 1..Len(native) : native[i][1] = "ovrHmd_ConfigureTracking"

\* The last call made an SDK call on a device.
DeviceCalled == \E i \in 1..Len(native) : native[i][2] # 0

\* C1: once a Close call without a handle has returned normally on an
\* initialized driver, no slot holds a device, the device count is 0 and the
\* driver is uninitialized.
C1_CloseAllLeavesNothingOpen ==
    (op = "Close" /\ arg < 1 /\ error = NoError /\ prev.initialized)
        => /\ \A h \in Handles : ~hmd[h]
           /\ devicecount = 0
           /\ ~initialized

\* C2: in every reachable state the device count is the number of slots that
\* hold a device, and so lies in 0..MAX_PSYCH_OCULUS_DEVS.
C2_CountIsNumberOfOpenSlots ==
    /\ devicecount = Cardinality(OpenHandles(hmd))
    /\ devicecount \in 0..MAX_PSYCH_OCULUS_DEVS

\* C2 witness: a Close has just taken the count from 3 to 2, leaving a gap.
C2_Witness ==
    /\ op = "Close" /\ error = NoError
    /\ prev.devicecount = 3 /\ devicecount = 2
    /\ OpenHandles(hmd) = {2, 3}

\* The subfunctions that take a device handle.
HandleOps == {"Start", "Stop", "Close", "GetTrackingState", "GetFovTextureSize"}

\* C3 as the spec states it: on an initialized driver every operation that
\* takes a handle fails with the user error 'invalid handle' when the handle
\* is not open.  (A handle of -1 is what an omitted handle reads as, and is
\* left out here.)
C3_EveryHandleOpRejectsClosedHandle ==
    (op \in HandleOps /\ ~WasOpen(arg) /\ arg # -1 /\ prev.initialized)
        => error = ErrInvalidHandle

\* C3 as the code has it: on a driver whose runtime is (or has just been)
\* initialized, Start, GetTrackingState and GetFovTextureSize fail with the
\* user error 'Invalid Oculus handle.' for a handle that is not open and
\* change nothing; Stop, and Close with a handle >= 1, return without an
\* error and change nothing.
C3_ClosedHandle ==
    (op \in HandleOps /\ ~WasOpen(arg) /\ error # ErrInitFailed)
        => /\ op \in {"Start", "GetTrackingState", "GetFovTextureSize"}
                => error = ErrInvalidHandle /\ TableUnchanged
           /\ (op = "Stop" \/ (op = "Close" /\ arg >= 1))
                => error = NoError /\ TableUnchanged /\ ~DeviceCalled

\* C3 witness: a query of handle 1, which was open once and is closed now,
\* has just been rejected while another device is open.
C3_Witness ==
    /\ op = "GetTrackingState" /\ arg = 1
    /\ ~prev.hmd[1] /\ prev.hmd[2] /\ prev.initialized
    /\ error = ErrInvalidHandle

\* C4: Close with a handle that names no open device changes no slot, no
\* tracking flag and not the device count.  (A handle of -1 is what an
\* omitted handle reads as, and is left out here.)
C4_CloseOfClosedHandleChangesNothing ==
    (op = "Close" /\ ~WasOpen(arg) /\ arg # -1) => TableUnchanged

\* C5: a successful Open followed at once by Close of the handle it returned
\* puts the table back: the open handles, the tracking flags and the device
\* count are those of before the Open, the slot is free with tracking off,
\* and it is the slot the next Open would claim.
C5_OpenThenCloseRestores ==
    [][(/\ op = "Open" /\ error = NoError /\ ~crashed
        /\ op' = "Close" /\ arg' = ret)
         => /\ error' = NoError
            /\ hmd' = prev.hmd
            /\ isTracking' = prev.isTracking
            /\ devicecount' = prev.devicecount
            /\ ~hmd'[ret] /\ ~isTracking'[ret]
            /\ FreeSlotFrom([hmd |-> hmd'], 1) = ret]_vars

\* C5 witness: handle 5, which only the Open before could have handed out,
\* has just been closed again.
C5_Witness ==
    /\ op = "Close" /\ arg = 5 /\ error = NoError
    /\ prev.hmd[5] /\ ~hmd[5]
    /\ OpenHandles(hmd) = 1..4

\* C6: with all MAX_PSYCH_OCULUS_DEVS slots open, Open fails with a user
\* error and leaves the records and the device count as they are.
C6_OpenOnFullTableIsUserError ==
    (op = "Open" /\ arg >= -1 /\ OpenHandles(prev.hmd) = Handles)
        => /\ error[1] = "PsychError_user"
           /\ TableUnchanged

\* C7: Start on an open device that is not tracking, the SDK accepting the
\* request, leaves it tracking; Start on a device that is tracking fails with
\* a user error, asks nothing of the SDK and leaves it tracking.
C7_StartThenStartAgain ==
    /\ (/\ op = "Start" /\ WasOpen(arg) /\ ~prev.isTracking[arg]
        /\ error[1] # "PsychError_system")
          => error = NoError /\ isTracking[arg]
    /\ (op = "Start" /\ WasOpen(arg) /\ prev.isTracking[arg])
          => /\ error[1] = "PsychError_user"
             /\ ~TrackingRequested
             /\ isTracking[arg] /\ hmd[arg]

\* C8: Stop on an open device that is not tracking succeeds, asks nothing
\* of the SDK and leaves the device open and not tracking.
C8_StopWhenStoppedIsNoOp ==
    (op = "Stop" /\ WasOpen(arg) /\ ~prev.isTracking[arg])
        => /\ error = NoError
           /\ ~TrackingRequested
           /\ hmd[arg] /\ ~isTracking[arg]

\* C9 as the spec states it: Open of a device index that is not below the
\* detected count fails with the user error 'Not enough HMDs available' and
\* changes nothing.
C9_OpenBeyondCountIsNotEnoughHMDs ==
    (op = "Open" /\ arg >= 0 /\ arg >= available_devices)
        => error = ErrNotEnoughHMDs /\ TableUnchanged

\* C9 as the code has it: when the runtime is (or has just been) initialized
\* and a slot is free, Open of a device index >= 0 that is not below the
\* count the call detects (a negative answer counting as 0) fails with the
\* user error 'Not enough HMDs available' and changes nothing; Open(-1) is
\* then never refused, whatever the count.
C9_OpenBeyondCount ==
    (op = "Open" /\ initialized /\ OpenHandles(prev.hmd) # Handles)
        => /\ available_devices >= 0
           /\ (arg >= 0 /\ arg >= available_devices)
                => error = ErrNotEnoughHMDs /\ TableUnchanged
           /\ arg = -1 => error = NoError /\ (crashed \/ hmd[ret])

\* C9 witness: Open(1) has just been refused with one HMD detected and one
\* device open.
C9_Witness ==
    /\ op = "Open" /\ arg = 1 /\ available_devices = 1
    /\ error = ErrNotEnoughHMDs
    /\ devicecount = 1

\* The runtime events of a call, replayed on the runtime state 'up' it
\* started in: ovr_Initialize() is called on a stopped runtime only,
\* ovr_Shutdown() on a running one only.
RECURSIVE Alternating(_, _)
Alternating(up, calls) ==
    IF calls = <<>> THEN TRUE
    ELSE LET c == Head(calls) IN
         IF c[1] = "ovr_Initialize"
         THEN ~up /\ Alternating(c[3] = 1, Tail(calls))
         ELSE IF c[1] = "ovr_Shutdown"
         THEN up /\ Alternating(FALSE, Tail(calls))
         ELSE Alternating(up, Tail(calls))

\* C10: the runtime is started by an uninitialized driver only and shut down
\* by an initialized one only, so that starts and shutdowns alternate and
\* the runtime runs exactly while the driver is initialized; a failed start
\* leaves the driver uninitialized and everything else as it was.
C10_LazyInitAlternates ==
    /\ ovrUp = initialized
    /\ Alternating(prev.initialized, native)
    /\ error = ErrInitFailed => ~initialized /\ Registry(Cur) = prev

\* C10 witness: a Close without a handle on an uninitialized driver has
\* started the runtime and shut it down again.
C10_Witness ==
    /\ op = "Close" /\ arg < 1 /\ error = NoError
    /\ ~prev.initialized /\ ~initialized
    /\ Len(native) >= 3

\* The last call was GetFovTextureSize with an argument the driver refuses:
\* an eye other than 0 and 1, a 'fov' that has not 4 elements, or a
\* 'pixelsPerDisplay' that is not above zero.
BadFovArgs ==
    /\ op = "GetFovTextureSize"
    /\ Len(args) = 3
    /\ (args[1] \notin 0..1 \/ args[2] \notin {0, 4} \/ args[3] <= 0)

\* The record of device h is as it was before the call: the texture size and
\* the meshes are, and no SDK call was made on a device (the render
\* descriptors, the UV scale and offset, the time-warp matrices and the head
\* poses are only ever written with what such a call answers).
RecordUnchanged(h) ==
    /\ texSize[h] = prev.texSize[h]
    /\ eyeDistortionMesh[h] = prev.eyeDistortionMesh[h]
    /\ ~DeviceCalled

\* C11: GetFovTextureSize on an open device with an eye outside {0, 1}, a
\* 'fov' of other than 4 elements or a 'pixelsPerDisplay' <= 0 fails with a
\* user error and leaves the device record as it was.
C11_BadFovArgsAreUserErrors ==
    (BadFovArgs /\ WasOpen(arg))
        => error[1] = "PsychError_user" /\ RecordUnchanged(arg)

\* C12: the size a successful GetFovTextureSize returns, and keeps in the
\* record's texSize, is the size the SDK recommended to that call.
C12_ReturnsRecommendedSize ==
    (op = "GetFovTextureSize" /\ error = NoError)
        => /\ recommended \in SdkSizes
           /\ ret = recommended
           /\ texSize[arg] = recommended

\* The SDK rejected a tracking request the last call made on device h.
TrackingRejected(h) ==
    \E i \in 1..Len(native) : native[i] = <<"ovrHmd_ConfigureTracking", h, 0>>

\* How often the last call released the device object of device h.
Released(h) ==
    Cardinality({i \in 1..Len(native) : native[i] = <<"ovrHmd_Destroy", h, 1>>})

\* C13: Close(handle) on an open, tracking device whose stop request the SDK
\* rejects still frees the slot and releases the device object exactly once.
C13_CloseReleasesThoughStopRejected ==
    (/\ op = "Close" /\ arg >= 1 /\ WasOpen(arg) /\ prev.isTracking[arg]
     /\ TrackingRejected(arg))
        => ~hmd[arg] /\ Released(arg) = 1

\* The meshes the records hold.
HeldMeshes ==
    {<<h, e>> \in Handles \X (0..1) : eyeDistortionMesh[h][e]}

\* C14: every mesh the SDK has allocated and not yet released is held by a
\* record (an overwritten mesh was released), and once no device is open
\* every mesh that was created has been destroyed.
C14_MeshesReleasedOnce ==
    /\ meshLive = Cardinality(HeldMeshes)
    /\ (\A h \in Handles : ~hmd[h]) => meshLive = 0

\* Every record is as before the call: the slots, the tracking flags, the
\* device count, the texture sizes and the meshes.
RecordsUnchanged ==
    /\ TableUnchanged
    /\ texSize = prev.texSize
    /\ eyeDistortionMesh = prev.eyeDistortionMesh

FlagChangedByItsCall(h) ==
    \/ /\ op = "Start" /\ arg = h /\ error = NoError
       /\ ~prev.isTracking[h] /\ isTracking[h]
    \/ /\ op = "Stop" /\ arg = h /\ error = NoError
       /\ prev.isTracking[h] /\ ~isTracking[h]
    \/ /\ op = "Close" /\ (arg = h \/ arg < 1) /\ error = NoError
       /\ prev.isTracking[h] /\ ~isTracking[h]

\* The last call was a Close without a handle that the SDK's rejection of a
\* stop request ended, after it had stopped and closed device h.
ClosedBeforeRejection(h) ==
    /\ op = "Close" /\ arg < 1 /\ error = ErrStopFailed
    /\ prev.isTracking[h] /\ ~isTracking[h]
    /\ prev.hmd[h] /\ ~hmd[h]
    /\ \E k \in Handles : k > h /\ TrackingRejected(k)

\* C16 as the spec states it: the tracking flag of a device changes only in
\* a successful Start, Stop or Close of that device or a successful Close
\* without a handle; every other call, and every failed call, leaves it.
C16_FlagChangesOnlyByItsCall ==
    \A h \in Handles :
        isTracking[h] # prev.isTracking[h] => FlagChangedByItsCall(h)

\* C16 as the code has it: the flag also changes in a Close without a handle
\* that fails, for the devices closed before the one whose stop request the
\* SDK rejected.
C16_FlagFrame ==
    \A h \in Handles :
        isTracking[h] # prev.isTracking[h]
            => FlagChangedByItsCall(h) \/ ClosedBeforeRejection(h)

\* C16 witness: a Close without a handle has failed on device 2 after it
\* stopped and closed device 1.
C16_Witness ==
    /\ ClosedBeforeRejection(1)
    /\ TrackingRejected(2) /\ isTracking[2] /\ hmd[2]

\* C17: a successful Open returns the smallest handle of 1..10 that was not
\* open before the call; that slot now holds a device with tracking off and
\* an empty record, the device count is one higher, and the slots, tracking
\* flags, texture sizes and meshes of all other handles are as before.
C17_OpenClaimsLowestFreeSlot ==
    (op = "Open" /\ error = NoError /\ ~crashed)
        => /\ ret \in Handles
           /\ ~prev.hmd[ret]
           /\ \A h \in 1..(ret - 1) : prev.hmd[h]
           /\ hmd[ret] /\ ~isTracking[ret]
           /\ texSize[ret] = NoSize /\ eyeDistortionMesh[ret] = NoMesh
           /\ devicecount = prev.devicecount + 1
           /\ \A h \in Handles \ {ret} :
                 /\ hmd[h] = prev.hmd[h]
                 /\ isTracking[h] = prev.isTracking[h]
                 /\ texSize[h] = prev.texSize[h]
                 /\ eyeDistortionMesh[h] = prev.eyeDistortionMesh[h]

\* C17 witness: Open has just filled the gap at handle 1 while handles 2 and
\* 3 are open.
C17_Witness ==
    /\ op = "Open" /\ error = NoError /\ ret = 1
    /\ ~prev.hmd[1] /\ prev.hmd[2] /\ prev.hmd[3]
    /\ hmd[1] /\ ~isTracking[1]

\* C18: whenever a slot holds a device or has tracking on, the driver is
\* initialized and the vendor runtime is running.
C18_OpenDeviceImpliesRuntime ==
    (\E h \in Handles : hmd[h] \/ isTracking[h]) => (initialized /\ ovrUp)
=============================================================================
